---------------------------- MODULE Spec2Model ----------------------------
(***************************************************************************)
(* recode-cols-py: a codebook table (column_name, old_values, new_labels)  *)
(* is compiled into a nested dictionary {column: {old: new}} by            *)
(* create_dict_pd / create_dict_pl (src/setup/create_codebook.py) and      *)
(* applied to a dataset by DataFrame.replace (pandas) and by               *)
(* with_columns(pl.col(c).replace(...)) (polars) in src/main.py.           *)
(*                                                                         *)
(* Python dictionaries are insertion ordered; they are modelled as         *)
(* sequences of <<key, value>> pairs with pairwise distinct keys.  A data  *)
(* frame with the three codebook fields is a record holding the set of     *)
(* columns it has, its height and one sequence per column; the dataset is  *)
(* a function from its column names to sequences of cells.  Old values,    *)
(* new labels and dataset cells are drawn from one set of scalars compared *)
(* by equality; the dtype coercions of the two libraries are not modelled. *)
(***************************************************************************)
EXTENDS Integers, Sequences, FiniteSets, TLC

\* Bounds of the explored inputs.
MaxTableRows == 2
DataRows == 1
MaxVal == 2

\* Arguments main.py passes to the compilers (main.py:10-12, 22-24).
col_name == "column_name"
old_val_col == "old_values"
new_val_col == "new_labels"
Fields == {col_name, old_val_col, new_val_col}

\* Dataset variable names, listed in lexical order, and the missing cell
\* (NaN in pandas, null in polars) a CSV reader yields for an empty field.
NameOrder == <<"a", "b">>
Names == {NameOrder[i] : i \in DOMAIN NameOrder}
None == "None"
Vals == 1..MaxVal

Min(a, b) == IF a <= b THEN a ELSE b

---------------------------------------------------------------------------
(* Results: a returned value or a raised exception.                        *)
Ok(v) == [exc |-> "", arg |-> "", value |-> v]
Raise(e, a) == [exc |-> e, arg |-> a, value |-> <<>>]
Unset == [exc |-> "unset", arg |-> "", value |-> <<>>]
Returned(r) == r.exc = ""
Raised(r) == r.exc \notin {"", "unset"}

---------------------------------------------------------------------------
(* Python dict and zip.                                                    *)
dict_keys(d) == [i \in 1..Len(d) |-> d[i][1]]
dict_values(d) == [i \in 1..Len(d) |-> d[i][2]]
dict_contains(d, k) == \E i \in 1..Len(d) : d[i][1] = k
dict_getitem(d, k) == d[CHOOSE i \in 1..Len(d) : d[i][1] = k][2]

\* d[k] = v that leaves a present key's value alone (first write wins)
dict_setitem_keep_first(d, k, v) ==
    IF dict_contains(d, k) THEN d ELSE Append(d, <<k, v>>)

\* d[k] = v: a present key keeps its position and takes the new value.
dict_setitem(d, k, v) ==
    IF dict_contains(d, k)
    THEN [i \in 1..Len(d) |-> IF d[i][1] = k THEN <<k, v>> ELSE d[i]]
    ELSE Append(d, <<k, v>>)

zip(xs, ys) == [i \in 1..Min(Len(xs), Len(ys)) |-> <<xs[i], ys[i]>>]

RECURSIVE dict_update(_, _)
dict_update(d, pairs) ==
    IF pairs = <<>> THEN d
    ELSE dict_update(dict_setitem(d, pairs[1][1], pairs[1][2]), Tail(pairs))

\* dict(zip(olds, news))
dict(pairs) == dict_update(<<>>, pairs)

---------------------------------------------------------------------------
(* Grouping.                                                               *)
RECURSIVE unique(_)
\* distinct elements in order of first appearance
unique(s) ==
    IF s = <<>> THEN <<>>
    ELSE LET u == unique(SubSeq(s, 1, Len(s) - 1))
             x == s[Len(s)]
         IN IF \E i \in 1..Len(u) : u[i] = x THEN u ELSE Append(u, x)

RECURSIVE take_where(_, _, _)
\* the cells of column xs in the rows where column by holds key
take_where(xs, by, key) ==
    IF by = <<>> \/ xs = <<>> THEN <<>>
    ELSE LET rest == take_where(Tail(xs), Tail(by), key)
         IN IF Head(by) = key THEN <<Head(xs)>> \o rest ELSE rest

RECURSIVE drop_na(_)
drop_na(s) ==
    IF s = <<>> THEN <<>>
    ELSE IF Head(s) = None THEN drop_na(Tail(s))
         ELSE <<Head(s)>> \o drop_na(Tail(s))

Rank(n) == CHOOSE i \in DOMAIN NameOrder : NameOrder[i] = n

RECURSIVE sorted_keys(_)
sorted_keys(s) ==
    IF s = <<>> THEN <<>>
    ELSE LET m == CHOOSE i \in 1..Len(s) : \A j \in 1..Len(s) : Rank(s[i]) <= Rank(s[j])
         IN <<s[m]>> \o sorted_keys([j \in 1..(Len(s) - 1) |-> IF j < m THEN s[j] ELSE s[j + 1]])

\* group keys as groupby(sort=True), the pandas default, would yield them
pd_group_keys_sorted(df, by) == sorted_keys(unique(drop_na(df[by])))

\* df.groupby(by, sort=False): keys in order of first appearance; rows whose
\* key is missing are dropped (dropna=True is the default).
pd_group_keys(df, by) == unique(drop_na(df[by]))

\* group keys with the table's first row left out
pl_group_keys_skip_first(df, by) ==
    IF df[by] = <<>> THEN <<>> ELSE unique(Tail(df[by]))

\* df.group_by(by, maintain_order=True): keys in order of first appearance;
\* a null key forms a group of its own.
pl_group_keys(df, by) == unique(df[by])

---------------------------------------------------------------------------
(* The compilers, src/setup/create_codebook.py.                            *)
RECURSIVE pd_for_groups(_, _, _, _, _, _)
\* for var, col in df.groupby(col_name, sort=False):
\*     nested_dict[var] = dict(zip(col[old_val_col], col[new_val_col]))
\* col[...] raises KeyError in the first iteration when the column is absent;
\* with no group the body never runs.
pd_for_groups(df, keys, cn, ov, nv, nested_dict) ==
    IF keys = <<>> THEN Ok(nested_dict)
    ELSE IF ov \notin df.columns THEN Raise("KeyError", ov)
    ELSE IF nv \notin df.columns THEN Raise("KeyError", nv)
    ELSE LET var == Head(keys)
             col_old == take_where(df[ov], df[cn], var)
             col_new == take_where(df[nv], df[cn], var)
         IN pd_for_groups(df, Tail(keys), cn, ov, nv,
                          dict_setitem(nested_dict, var, dict(zip(col_old, col_new))))

create_dict_pd(df, cn, ov, nv) ==
    IF cn \notin df.columns THEN Raise("KeyError", cn)
    ELSE pd_for_groups(df, pd_group_keys(df, cn), cn, ov, nv, <<>>)

\* df.group_by(col_name, maintain_order=True).agg(pl.col(old), pl.col(new))
\*   .iter_rows(named=True): one row per group, the group's cells as lists.
pl_agg_rows(df, cn, ov, nv) ==
    LET keys == pl_group_keys(df, cn)
    IN [g \in 1..Len(keys) |->
          [key |-> keys[g],
           olds |-> take_where(df[ov], df[cn], keys[g]),
           news |-> take_where(df[nv], df[cn], keys[g])]]

RECURSIVE pl_comprehension(_, _)
\* {row[col_name]: dict(zip(row[old_val_col], row[new_val_col])) for row in ...}
pl_comprehension(rows, acc) ==
    IF rows = <<>> THEN acc
    ELSE pl_comprehension(Tail(rows),
             dict_setitem(acc, Head(rows).key, dict(zip(Head(rows).olds, Head(rows).news))))

\* the columns the query names that the frame lacks (ColumnNotFoundError)
pl_not_found(df, cols) == cols \ df.columns

\* the dictionary create_dict_pl returns when every named column exists
create_dict_pl(df, cn, ov, nv) == pl_comprehension(pl_agg_rows(df, cn, ov, nv), <<>>)

---------------------------------------------------------------------------
(* pandas DataFrame.replace(to_replace = nested dict), src/main.py:16.     *)
mask_missing(values, x) == [i \in 1..Len(values) |-> values[i] = x]

\* a mask recomputed on the partly replaced block
pair_mask_current(values, rb, src) == mask_missing(rb, src)

\* Block.replace_list takes every pair's mask from the block's values as
\* they were before the first replacement.
pair_mask(values, rb, src) == mask_missing(values, src)

putmask(rb, mask, dest) == [i \in 1..Len(rb) |-> IF mask[i] THEN dest ELSE rb[i]]

RECURSIVE replace_pairs(_, _, _)
replace_pairs(values, rb, pairs) ==
    IF pairs = <<>> THEN rb
    ELSE replace_pairs(values,
                       putmask(rb, pair_mask(values, rb, Head(pairs)[1]), Head(pairs)[2]),
                       Tail(pairs))

\* Series.replace(list of old values, list of new values)
replace_list(values, src_list, dest_list) ==
    replace_pairs(values, values, zip(src_list, dest_list))

\* the nested dictionary is split into {col: olds} and {col: news}; only the
\* columns the frame has are replaced (_replace_columnwise)
pd_replace(df, to_replace) ==
    [c \in DOMAIN df |->
        IF dict_contains(to_replace, c)
        THEN replace_list(df[c], dict_keys(dict_getitem(to_replace, c)),
                                 dict_values(dict_getitem(to_replace, c)))
        ELSE df[c]]

---------------------------------------------------------------------------
(* polars with_columns(pl.col(c).replace(mapping).alias(c) ...),           *)
(* src/main.py:29-46.                                                      *)

\* a replace that nulls (0) the cells no key matches
pl_replace_default_null(s, mapping) ==
    [i \in 1..Len(s) |-> IF dict_contains(mapping, s[i]) THEN dict_getitem(mapping, s[i]) ELSE 0]

\* Expr.replace(mapping): each cell is looked up once among the old values
pl_replace(s, mapping) ==
    [i \in 1..Len(s) |-> IF dict_contains(mapping, s[i]) THEN dict_getitem(mapping, s[i]) ELSE s[i]]

\* [pl.col(col).replace(nested_dict_pl[col]).alias(col) for col in list(nested_dict_pl)]
recode_expr_list(nested) ==
    [i \in 1..Len(nested) |-> [col |-> nested[i][1], mapping |-> dict_getitem(nested, nested[i][1])]]

expr_columns(exprs) == {exprs[i].col : i \in 1..Len(exprs)}

RECURSIVE with_columns(_, _, _)
\* every expression reads the frame as it was; its result is stored under
\* the alias
with_columns(df, exprs, res) ==
    IF exprs = <<>> THEN res
    ELSE with_columns(df, Tail(exprs),
             [res EXCEPT ![Head(exprs).col] = pl_replace(df[Head(exprs).col], Head(exprs).mapping)])

---------------------------------------------------------------------------
(* Inputs: the two CSV files main.py reads.                                *)

\* a codebook frame of n rows having the columns fs
CodebookFrame(fs, n, cn, ov, nv) ==
    [columns |-> fs, height |-> n,
     column_name |-> IF col_name \in fs THEN cn ELSE <<>>,
     old_values |-> IF old_val_col \in fs THEN ov ELSE <<>>,
     new_labels |-> IF new_val_col \in fs THEN nv ELSE <<>>]

\* every codebook file of at most MaxTableRows rows whose column_name cells
\* are drawn from names
CodebookFiles(names) ==
    UNION { { CodebookFrame(fs, n, cn, ov, nv) :
                cn \in [1..n -> names], ov \in [1..n -> Vals], nv \in [1..n -> Vals] } :
            fs \in SUBSET Fields, n \in 0..MaxTableRows }

\* the dataset always has the first variable and may have the others
DataColumnSets == { {NameOrder[j] : j \in 1..k} : k \in 1..Len(NameOrder) }
\* every column of a data file repeats one column of DataRows cells
DataFiles ==
    { [c \in cols |-> cells] : cols \in DataColumnSets, cells \in [1..DataRows -> Vals] }

\* the data files whose cells all hold the first value
PlainDataFiles == {d \in DataFiles : \A c \in DOMAIN d : \A i \in 1..DataRows : d[c][i] = 1}

\* {new: old for old, new in mapping.items()} for every column
inverse_dict(mapping) == dict(zip(dict_values(mapping), dict_keys(mapping)))
inverse_codebook(nested) ==
    [i \in 1..Len(nested) |-> <<nested[i][1], inverse_dict(nested[i][2])>>]

---------------------------------------------------------------------------
VARIABLES
    pc,               \* the statement main.py executes next
    csv_codebook,     \* ./data/grad_app_codebook.csv
    csv_data,         \* ./data/grad_app_data.csv
    nested_dict_pd,   \* main.py:9
    recoded_pd,       \* value of data_pd.replace(...), main.py:16
    restored_pd,      \* recoded_pd recoded with the inverse codebook
    nested_dict_pl,   \* main.py:21
    recoded_pl,       \* value of the expression at main.py:29-37
    recoded_pl_list,  \* value of data_pl.with_columns(recode_expr_list), main.py:46
    restored_pl       \* recoded_pl_list recoded with the inverse codebook

vars == <<pc, csv_codebook, csv_data, nested_dict_pd, recoded_pd, restored_pd,
          nested_dict_pl, recoded_pl, recoded_pl_list, restored_pl>>

InitResults ==
    /\ pc = "create_dict_pd"
    /\ nested_dict_pd = Unset /\ recoded_pd = Unset /\ restored_pd = Unset
    /\ nested_dict_pl = Unset /\ recoded_pl = Unset
    /\ recoded_pl_list = Unset /\ restored_pl = Unset

\* Every codebook file whose column_name cells hold variable names, with
\* every data file.
Init ==
    /\ csv_codebook \in CodebookFiles(Names)
    /\ csv_data \in DataFiles
    /\ InitResults

\* The compilers read the codebook file only: the same codebook files with
\* the plain data files.
InitCompile ==
    /\ csv_codebook \in CodebookFiles(Names)
    /\ csv_data \in PlainDataFiles
    /\ InitResults

\* Codebook files in which a column_name cell may be empty.
InitNull ==
    /\ csv_codebook \in CodebookFiles(Names \cup {None})
    /\ csv_data \in PlainDataFiles
    /\ InitResults

\* main.py:7-12.  An uncaught exception ends the script.
CreateDictPd ==
    /\ pc = "create_dict_pd"
    /\ nested_dict_pd' = create_dict_pd(csv_codebook, col_name, old_val_col, new_val_col)
    /\ pc' = IF Returned(nested_dict_pd') THEN "replace_pd" ELSE "raised"
    /\ UNCHANGED <<csv_codebook, csv_data, recoded_pd, restored_pd, nested_dict_pl,
                   recoded_pl, recoded_pl_list, restored_pl>>

\* main.py:14-16.  replace returns a new frame; data_pd itself is not changed.
ReplacePd ==
    /\ pc = "replace_pd"
    /\ recoded_pd' = Ok(pd_replace(csv_data, nested_dict_pd.value))
    /\ pc' = "restore_pd"
    /\ UNCHANGED <<csv_codebook, csv_data, nested_dict_pd, restored_pd, nested_dict_pl,
                   recoded_pl, recoded_pl_list, restored_pl>>

\* replace applied to the recoded frame with the inverse codebook
RestorePd ==
    /\ pc = "restore_pd"
    /\ restored_pd' = Ok(pd_replace(recoded_pd.value, inverse_codebook(nested_dict_pd.value)))
    /\ pc' = "create_dict_pl"
    /\ UNCHANGED <<csv_codebook, csv_data, nested_dict_pd, recoded_pd, nested_dict_pl,
                   recoded_pl, recoded_pl_list, restored_pl>>

\* main.py:20-24.  A named column the frame lacks raises ColumnNotFoundError;
\* which of several is reported is left open.
CreateDictPl ==
    /\ pc = "create_dict_pl"
    /\ LET missing == pl_not_found(csv_codebook, Fields)
       IN IF missing = {}
          THEN /\ nested_dict_pl' =
                     Ok(create_dict_pl(csv_codebook, col_name, old_val_col, new_val_col))
               /\ pc' = "with_columns"
          ELSE /\ \E f \in missing : nested_dict_pl' = Raise("ColumnNotFoundError", f)
               /\ pc' = "raised"
    /\ UNCHANGED <<csv_codebook, csv_data, nested_dict_pd, recoded_pd, restored_pd,
                   recoded_pl, recoded_pl_list, restored_pl>>

\* data_pl.with_columns(exprs): an expression naming a column the frame
\* lacks raises ColumnNotFoundError
pl_with_columns(df, exprs, c) ==
    IF expr_columns(exprs) \subseteq DOMAIN df
    THEN Ok(with_columns(df, exprs, df))
    ELSE Raise("ColumnNotFoundError", c)

\* main.py:26-37
WithColumnsGenerator ==
    /\ pc = "with_columns"
    /\ LET exprs == recode_expr_list(nested_dict_pl.value)
       IN \E c \in (expr_columns(exprs) \ DOMAIN csv_data) \cup {""} :
            /\ (c = "") = (expr_columns(exprs) \subseteq DOMAIN csv_data)
            /\ recoded_pl' = pl_with_columns(csv_data, exprs, c)
    /\ pc' = IF Returned(recoded_pl') THEN "with_columns_list" ELSE "raised"
    /\ UNCHANGED <<csv_codebook, csv_data, nested_dict_pd, recoded_pd, restored_pd,
                   nested_dict_pl, recoded_pl_list, restored_pl>>

\* main.py:40-46
WithColumnsList ==
    /\ pc = "with_columns_list"
    /\ recoded_pl_list' =
           pl_with_columns(csv_data, recode_expr_list(nested_dict_pl.value), "")
    /\ pc' = "restore_pl"
    /\ UNCHANGED <<csv_codebook, csv_data, nested_dict_pd, recoded_pd, restored_pd,
                   nested_dict_pl, recoded_pl, restored_pl>>

\* with_columns applied to the recoded frame with the inverse codebook
RestorePl ==
    /\ pc = "restore_pl"
    /\ restored_pl' =
           pl_with_columns(recoded_pl_list.value,
                           recode_expr_list(inverse_codebook(nested_dict_pl.value)), "")
    /\ pc' = "done"
    /\ UNCHANGED <<csv_codebook, csv_data, nested_dict_pd, recoded_pd, restored_pd,
                   nested_dict_pl, recoded_pl, recoded_pl_list>>

Next ==
    \/ CreateDictPd
    \/ ReplacePd
    \/ RestorePd
    \/ CreateDictPl
    \/ WithColumnsGenerator
    \/ WithColumnsList
    \/ RestorePl

Spec == Init /\ [][Next]_vars
SpecCompile == InitCompile /\ [][Next]_vars
SpecNull == InitNull /\ [][Next]_vars

---------------------------------------------------------------------------
(* Vocabulary of the properties.                                           *)
T == csv_codebook
D == csv_data
AllFields == T.columns = Fields
Rows == 1..T.height

KeySet(d) == {d[k][1] : k \in 1..Len(d)}
DistinctKeys(d) == \A i, j \in 1..Len(d) : d[i][1] = d[j][1] => i = j
\* the value a mapping holds for k, found without reference to entry order
Lookup(d, k) == d[CHOOSE i \in 1..Len(d) : d[i][1] = k][2]

Perms(n) == {p \in [1..n -> 1..n] : \A i, j \in 1..n : p[i] = p[j] => i = j}
PermuteSeq(s, p) == [i \in 1..Len(s) |-> s[p[i]]]
PermuteRows(t, p) ==
    CodebookFrame(t.columns, t.height, PermuteSeq(t.column_name, p),
                  PermuteSeq(t.old_values, p), PermuteSeq(t.new_labels, p))

\* the last row of T holding column name c and old value o
LastRow(c, o) ==
    CHOOSE i \in Rows :
        /\ T.column_name[i] = c /\ T.old_values[i] = o
        /\ \A j \in Rows : (T.column_name[j] = c /\ T.old_values[j] = o) => j <= i
\* the first row of T holding column name c
FirstRow(c) ==
    CHOOSE i \in Rows :
        /\ T.column_name[i] = c
        /\ \A j \in Rows : T.column_name[j] = c => i <= j
\* the first row of T holding column name c and old value o
FirstRowOf(c, o) ==
    CHOOSE i \in Rows :
        /\ T.column_name[i] = c /\ T.old_values[i] = o
        /\ \A j \in Rows : (T.column_name[j] = c /\ T.old_values[j] = o) => i <= j

\* the cell recode(D, C) must hold for a cell of column c holding v
Recoded(C, c, v) ==
    IF c \in KeySet(C) /\ v \in KeySet(Lookup(C, c)) THEN Lookup(Lookup(C, c), v) ELSE v
RecodedFrame(C, data) ==
    [c \in DOMAIN data |-> [i \in 1..Len(data[c]) |-> Recoded(C, c, data[c][i])]]

\* Every result variable is written once, by the statement that computes it,
\* and never changes afterwards; a property of a result is examined in the
\* state that statement leaves.
CompiledPd == pc = "replace_pd" \/ (pc = "raised" /\ Raised(nested_dict_pd))
CompiledPl == pc = "with_columns" \/ (pc = "raised" /\ Raised(nested_dict_pl))
RecodedPd == pc = "restore_pd"
RecodedPl == pc = "with_columns_list" \/ (pc = "raised" /\ Raised(recoded_pl))
RecodedPlList == pc = "restore_pl"
RestoredPd == pc = "create_dict_pl"
RestoredPl == pc = "done"

---------------------------------------------------------------------------
\* C1: for every dataset D, codebook C and column c that is a key of C and a
\* column of D, recode(D, C) returns a table in which every cell of c that
\* equals a key k of C[c] holds C[c][k] and every other cell of c holds its
\* original value.
C1_RecodeReturnsRecodedCells ==
    /\ RecodedPd =>
         \A c \in KeySet(nested_dict_pd.value) \cap DOMAIN D :
            /\ Returned(recoded_pd)
            /\ \A i \in 1..DataRows :
                 recoded_pd.value[c][i] = Recoded(nested_dict_pd.value, c, D[c][i])
    /\ RecodedPl =>
         \A c \in KeySet(nested_dict_pl.value) \cap DOMAIN D :
            /\ Returned(recoded_pl)
            /\ \A i \in 1..DataRows :
                 recoded_pl.value[c][i] = Recoded(nested_dict_pl.value, c, D[c][i])

\* nested holds, for every row of T, the new value of the last row with the
\* same name and old value, and nothing else
LastWriteWins(nested) ==
    /\ DistinctKeys(nested)
    /\ \A k \in 1..Len(nested) : DistinctKeys(nested[k][2])
    /\ \A i \in Rows :
         LET c == T.column_name[i]
             o == T.old_values[i]
         IN /\ c \in KeySet(nested)
            /\ o \in KeySet(Lookup(nested, c))
            /\ Lookup(Lookup(nested, c), o) = T.new_labels[LastRow(c, o)]
    /\ \A k \in 1..Len(nested) : \A m \in 1..Len(nested[k][2]) :
         \E i \in Rows : /\ T.column_name[i] = nested[k][1]
                         /\ T.old_values[i] = nested[k][2][m][1]
                         /\ T.new_labels[i] = nested[k][2][m][2]
ColumnNames == {T.column_name[i] : i \in Rows}
C4_OtherColumnsUnchanged ==
    /\ RecodedPd =>
         /\ \A c \in DOMAIN D \ KeySet(nested_dict_pd.value) :
               Returned(recoded_pd) /\ recoded_pd.value[c] = D[c]
         /\ nested_dict_pd.value = <<>> => Returned(recoded_pd) /\ recoded_pd.value = D
    /\ RecodedPl =>
         /\ \A c \in DOMAIN D \ KeySet(nested_dict_pl.value) :
               Returned(recoded_pl) /\ recoded_pl.value[c] = D[c]
         /\ nested_dict_pl.value = <<>> => Returned(recoded_pl) /\ recoded_pl.value = D

\* C without the entries whose column D lacks
Restricted(C) == SelectSeq(C, LAMBDA e : e[1] \in DOMAIN D)
\* C5: when C has a key naming a column absent from D, recode(D, C) raises
\* no error and returns recode(D, C') for C' = C restricted to the columns
\* of D.
C5_AbsentColumnIgnored ==
    /\ (RecodedPd /\ ~(KeySet(nested_dict_pd.value) \subseteq DOMAIN D)) =>
         /\ Returned(recoded_pd)
         /\ recoded_pd.value = pd_replace(D, Restricted(nested_dict_pd.value))
    /\ (RecodedPl /\ ~(KeySet(nested_dict_pl.value) \subseteq DOMAIN D)) =>
         /\ Returned(recoded_pl)
         /\ recoded_pl.value =
               with_columns(D, recode_expr_list(Restricted(nested_dict_pl.value)), D)

\* C6: compile fails with an error naming a missing field whenever one of
\* the three named fields is not a column of the table, and returns no
\* codebook.
C6_MissingFieldRaises ==
    ~AllFields =>
        /\ CompiledPd =>
              Raised(nested_dict_pd) /\ nested_dict_pd.arg \in Fields \ T.columns
        /\ CompiledPl =>
              Raised(nested_dict_pl) /\ nested_dict_pl.arg \in Fields \ T.columns

Injective(mapping) ==
    \A i, j \in 1..Len(mapping) : mapping[i][2] = mapping[j][2] => i = j
InjectiveCodebook(C) == \A k \in 1..Len(C) : Injective(C[k][2])
NoCollision(C) ==
    \A k \in 1..Len(C) :
        C[k][1] \in DOMAIN D =>
            \A i \in 1..DataRows :
                D[C[k][1]][i] \notin KeySet(C[k][2]) =>
                    \A m \in 1..Len(C[k][2]) : C[k][2][m][2] # D[C[k][1]][i]
FirstSeenOrder(nested) ==
    /\ \A k \in 1..Len(nested) : nested[k][1] \in ColumnNames
    /\ \A k1, k2 \in 1..Len(nested) :
          k1 < k2 => FirstRow(nested[k1][1]) < FirstRow(nested[k2][1])
    /\ \A k \in 1..Len(nested) :
          LET c == nested[k][1]
              inner == nested[k][2]
          IN /\ \A m \in 1..Len(inner) :
                   \E i \in Rows : T.column_name[i] = c /\ T.old_values[i] = inner[m][1]
             /\ \A m1, m2 \in 1..Len(inner) :
                   m1 < m2 => FirstRowOf(c, inner[m1][1]) < FirstRowOf(c, inner[m2][1])
\* C8: the outer keys of compile(T) are ordered by the first row of T in
\* which each column name appears, and within a group the old values are
\* taken in row order.
C8_FirstSeenOrder ==
    AllFields =>
        /\ CompiledPd => Returned(nested_dict_pd) /\ FirstSeenOrder(nested_dict_pd.value)
        /\ CompiledPl => Returned(nested_dict_pl) /\ FirstSeenOrder(nested_dict_pl.value)
\* a table whose first row names the lexically later column has been
\* compiled by both compilers into a dictionary whose first key it is
C8_Witness ==
    /\ AllFields /\ CompiledPl /\ Returned(nested_dict_pd) /\ Returned(nested_dict_pl)
    /\ T.height >= 2
    /\ Rank(T.column_name[1]) > Rank(T.column_name[2])
    /\ nested_dict_pd.value[1][1] = T.column_name[1]
    /\ nested_dict_pl.value[1][1] = T.column_name[1]
    /\ Len(nested_dict_pd.value) = 2 /\ Len(nested_dict_pl.value) = 2

\* C9: for every codebook table T with the three fields, also one with a
\* missing column_name cell, create_dict_pd(T) and create_dict_pl(T) return
\* the same nested mapping: same outer keys in the same order, same inner
\* pairs.
C9_CompilersAgree ==
    (AllFields /\ CompiledPl) =>
        /\ Returned(nested_dict_pd) /\ Returned(nested_dict_pl)
        /\ nested_dict_pd.value = nested_dict_pl.value

\* C with its columns, or the entries of one column, in another order
ReorderedColumns(C) == {PermuteSeq(C, q) : q \in Perms(Len(C))}
ReorderedEntries(C) ==
    UNION { { [C EXCEPT ![k] = <<C[k][1], PermuteSeq(C[k][2], q)>>] :
                q \in Perms(Len(C[k][2])) } : k \in 1..Len(C) }
Reordered(C) == ReorderedColumns(C) \cup ReorderedEntries(C)
\* C10: each cell of recode(D, C) is the single lookup of the cell's original
\* value in C[c]: a cell replaced by a new label that is itself a key of
\* C[c] is not replaced again, and the result is the same for every order of
\* the entries of C[c] and every order of the columns of C.
C10_SimultaneousLookup ==
    /\ RecodedPd =>
          /\ Returned(recoded_pd)
          /\ recoded_pd.value = RecodedFrame(nested_dict_pd.value, D)
          /\ \A C \in Reordered(nested_dict_pd.value) :
                pd_replace(D, C) = recoded_pd.value
    /\ RecodedPl =>
          /\ Returned(recoded_pl) =>
                recoded_pl.value = RecodedFrame(nested_dict_pl.value, D)
          /\ \A C \in Reordered(nested_dict_pl.value) :
                \E c \in KeySet(C) \cup {""} :
                    pl_with_columns(D, recode_expr_list(C), c) = recoded_pl
    /\ (RecodedPlList /\ Returned(recoded_pl_list)) =>
          recoded_pl_list.value = RecodedFrame(nested_dict_pl.value, D)
\* both engines have recoded a cell whose new label is itself a key of the
\* column's mapping with another label, and the cell holds the first label
C10_Witness ==
    /\ RecodedPlList
    /\ Returned(recoded_pd) /\ Returned(recoded_pl) /\ Returned(recoded_pl_list)
    /\ \E c \in DOMAIN D \cap KeySet(nested_dict_pl.value) : \E i \in 1..DataRows :
          LET m == Lookup(nested_dict_pl.value, c)
              v == D[c][i]
          IN /\ v \in KeySet(m)
             /\ Lookup(m, v) \in KeySet(m)
             /\ Lookup(m, Lookup(m, v)) # Lookup(m, v)
             /\ recoded_pd.value[c][i] = Lookup(m, v)
             /\ recoded_pl.value[c][i] = Lookup(m, v)
             /\ recoded_pl_list.value[c][i] = Lookup(m, v)

=============================================================================
